---- MODULE Spec2Model ----
(***************************************************************************)
(* A model of the iced colour picker widget: the press/drag/release state  *)
(* machine of ColorPicker::update, the cache invalidation of diff, the     *)
(* position-to-colour mapping of fetch_hsv, the cached drawing of          *)
(* ColorPicker::draw, and the axis-assignment Spectrum of spectrums.rs.    *)
(*                                                                         *)
(* Numbers.  The program computes in f32.  The model computes in exact     *)
(* rationals <<n, d>> (d > 0, lowest terms) extended with the two special  *)
(* values a division by zero produces (NaN, +infinity).  Every value the   *)
(* model feeds in is a small dyadic or decimal fraction, and the rounding  *)
(* of f32 is not modelled.                                                 *)
(***************************************************************************)
EXTENDS Integers, Sequences, FiniteSets, TLC

(***************************************************************************)
(* Bounds of the model.                                                    *)
(***************************************************************************)
\* Cursor and touch coordinates range over 0..MaxCoord on both axes.
MaxCoord == 3
\* Finger ids range over 1..MaxFinger.
MaxFinger == 2

(***************************************************************************)
(* f32 values as extended rationals.                                       *)
(***************************************************************************)
Abs(n) == IF n < 0 THEN -n ELSE n

RECURSIVE GCD(_, _)
GCD(a, b) == IF b = 0 THEN a ELSE GCD(b, a % b)

\* The rational n/d, d > 0, in lowest terms.
Rat(n, d) ==
    LET g == GCD(Abs(n), d)
    IN  <<n \div g, d \div g>>

Num(n) == <<n, 1>>
NaN == <<0, 0>>
Inf == <<1, 0>>

FLt(a, b) == a[1] * b[2] < b[1] * a[2]
FSub(a, b) == Rat(a[1] * b[2] - b[1] * a[2], a[2] * b[2])
FMul(a, b) == Rat(a[1] * b[1], a[2] * b[2])

\* a / b for finite a >= 0 and b >= 0: x / 0.0 is +infinity for x > 0 and
\* NaN for x = 0.
FDiv(a, b) ==
    IF b[1] = 0
    THEN (IF a[1] = 0 THEN NaN ELSE Inf)
    ELSE Rat(a[1] * b[2], a[2] * b[1])

\* f32::max and f32::min return the other argument when one is NaN.
FMax(a, b) ==
    IF a = NaN THEN b
    ELSE IF b = NaN THEN a
    ELSE IF a = Inf THEN a
    ELSE IF b = Inf THEN b
    ELSE IF FLt(a, b) THEN b ELSE a

FMin(a, b) ==
    IF a = NaN THEN b
    ELSE IF b = NaN THEN a
    ELSE IF a = Inf THEN b
    ELSE IF b = Inf THEN a
    ELSE IF FLt(b, a) THEN b ELSE a

(***************************************************************************)
(* Data model.                                                             *)
(***************************************************************************)
hsva(hue, saturation, value, alpha) ==
    [h |-> hue, s |-> saturation, v |-> value, a |-> alpha]

hsv(hue, saturation, value) == hsva(hue, saturation, value, Num(1))

\* impl Default for Hsv
DefaultHsv == hsva(Num(0), Num(0), Num(0), Num(1))

\* The widget's enum Spectrum.
Spectrums == {"SaturationValue", "HueHorizontal", "HueVertical"}

\* Option<Pressed>
Idle == [kind |-> "None", id |-> 0]
Primary == [kind |-> "Primary", id |-> 0]
Secondary == [kind |-> "Secondary", id |-> 0]
Finger(i) == [kind |-> "Finger", id |-> i]

FingerIds == 1..MaxFinger
Buttons == {"Left", "Right", "Middle"}

\* A Point is <<x, y>>; a cursor without a position (mouse::Cursor::Unavailable)
\* is the empty tuple.
NoPoint == << >>
Points == (0..MaxCoord) \X (0..MaxCoord)
Cursors == Points \cup {NoPoint}

Rect(px, py, w, h) == [x |-> px, y |-> py, width |-> w, height |-> h]

\* The layout the host hands to the widget: a 2 x 2 rectangle at (1, 1), so
\* that the coordinates 0..MaxCoord lie before, inside, and on or beyond its
\* far edges.
BoundsSet == {Rect(1, 1, 2, 2)}

\* The colours the host supplies: the default colour, and colours that differ
\* from one another in hue only, in saturation only, in value only, in
\* several components, and in alpha.
HostColors ==
    {DefaultHsv,
     hsva(Num(120), Num(0), Num(0), Num(1)),
     hsva(Num(120), Rat(1, 2), Num(0), Rat(1, 2)),
     hsva(Num(120), Rat(1, 2), Rat(1, 2), Rat(1, 2))}

\* Rectangle::contains, as used by cursor.is_over(bounds) and
\* bounds.contains(position): the left and top edges are inside, the right
\* and bottom edges are not.
Contains(b, p) ==
    /\ p # NoPoint
    /\ b.x <= p[1] /\ p[1] < b.x + b.width
    /\ b.y <= p[2] /\ p[2] < b.y + b.height

\* Faulty: the percentages are not capped at 1.
Percent_no_cap(offset, extent) ==
    FDiv(FMax(Num(offset), Num(0)), Num(extent))

\* Faulty: the offsets are not floored at 0.
Percent_no_floor(offset, extent) ==
    FMin(FDiv(Num(offset), Num(extent)), Num(1))

\* The percentage of a coordinate along one side of the bounds, as fetch_hsv
\* computes it: (x.max(0.0) / width).min(1.0).
Percent(offset, extent) ==
    FMin(FDiv(FMax(Num(offset), Num(0)), Num(extent)), Num(1))

\* Faulty: the value grows downwards, as the saturation grows rightwards.
fetch_hsv_value_down(spectrum_, current_color_, bounds_, cursor_) ==
    LET x == cursor_[1] - bounds_.x
        y == cursor_[2] - bounds_.y
    IN  CASE spectrum_ = "SaturationValue" ->
               [current_color_ EXCEPT
                   !.s = Percent(x, bounds_.width),
                   !.v = Percent(y, bounds_.height)]
          [] spectrum_ = "HueHorizontal" ->
               [current_color_ EXCEPT
                   !.h = FMul(Percent(x, bounds_.width), Num(360))]
          [] spectrum_ = "HueVertical" ->
               [current_color_ EXCEPT
                   !.h = FMul(Percent(y, bounds_.height), Num(360))]

fetch_hsv(spectrum_, current_color_, bounds_, cursor_) ==
    LET x == cursor_[1] - bounds_.x
        y == cursor_[2] - bounds_.y
    IN  CASE spectrum_ = "SaturationValue" ->
               [current_color_ EXCEPT
                   !.s = Percent(x, bounds_.width),
                   !.v = FSub(Num(1), Percent(y, bounds_.height))]
          [] spectrum_ = "HueHorizontal" ->
               [current_color_ EXCEPT
                   !.h = FMul(Percent(x, bounds_.width), Num(360))]
          [] spectrum_ = "HueVertical" ->
               [current_color_ EXCEPT
                   !.h = FMul(Percent(y, bounds_.height), Num(360))]

(***************************************************************************)
(* Colour conversion and the marker, as far as drawing needs them.         *)
(***************************************************************************)
\* f32::floor of a finite value.
FFloor(a) == Num(a[1] \div a[2])

\* f32::clamp of a finite value.
FClamp(x, lo, hi) == IF FLt(x, lo) THEN lo ELSE IF FLt(hi, x) THEN hi ELSE x

\* `h as u8` of a whole finite value: the cast saturates.
AsU8(a) == IF a[1] < 0 THEN 0 ELSE IF a[1] > 255 THEN 255 ELSE a[1]

\* impl From<Hsv> for Color
ColorFromHsv(c) ==
    LET h60 == FDiv(c.h, Num(60))
        h == FFloor(h60)
        f == FSub(h60, h)
        p == FMul(c.v, FSub(Num(1), c.s))
        q == FMul(c.v, FSub(Num(1), FMul(c.s, f)))
        t == FMul(c.v, FSub(Num(1), FMul(c.s, FSub(Num(1), f))))
        sector == AsU8(h)
        rgb == CASE sector = 1 -> <<q, c.v, p>>
                 [] sector = 2 -> <<p, c.v, t>>
                 [] sector = 3 -> <<p, q, c.v>>
                 [] sector = 4 -> <<t, p, c.v>>
                 [] sector = 5 -> <<c.v, p, q>>
                 [] OTHER -> <<c.v, t, p>>
    IN  [r |-> FClamp(rgb[1], Num(0), Num(1)),
         g |-> FClamp(rgb[2], Num(0), Num(1)),
         b |-> FClamp(rgb[3], Num(0), Num(1)),
         a |-> FClamp(c.a, Num(0), Num(1))]

\* fn marker: the marker's position and fill colour (its outline colour, a
\* function of the fill colour alone, is left out).
marker(spectrum_, current_color_, size) ==
    LET fill == IF spectrum_ = "SaturationValue"
                THEN ColorFromHsv(current_color_)
                ELSE ColorFromHsv(hsv(current_color_.h, Num(1), Num(1)))
        w == Num(size[1])
        h == Num(size[2])
        position ==
            CASE spectrum_ = "SaturationValue" ->
                   <<FMul(current_color_.s, w),
                     FMul(FSub(Num(1), current_color_.v), h)>>
              [] spectrum_ = "HueVertical" ->
                   <<FDiv(w, Num(2)),
                     FMul(FDiv(current_color_.h, Num(360)), h)>>
              [] spectrum_ = "HueHorizontal" ->
                   <<FMul(FDiv(current_color_.h, Num(360)), w),
                     FDiv(h, Num(2))>>
    IN  [position |-> position, color |-> fill]

(***************************************************************************)
(* geometry::Cache: empty, or filled with the geometry generated for a     *)
(* size.                                                                   *)
(***************************************************************************)
EmptyCache == [filled |-> FALSE, size |-> <<0, 0>>, geometry |-> << >>]

\* Cache::draw: the stored geometry when the cache is filled for this size,
\* the generated one otherwise.
CacheDraw(cache, size, generated) ==
    IF cache.filled /\ cache.size = size
    THEN cache
    ELSE [filled |-> TRUE, size |-> size, geometry |-> generated]

(***************************************************************************)
(* Faulty variants of diff, each the slip a property below must detect.     *)
(***************************************************************************)
\* A hue strip takes over the hue alone: saturation and value, which it does
\* not draw, stay as they were.
diff_1d_keeps_sv(spectrum_, canvas_cache, cursor_cache, current_color_, new_color) ==
    LET h_changed == new_color.h # current_color_.h
        sv_changed == new_color.s # current_color_.s
                      \/ new_color.v # current_color_.v
        after_h == IF h_changed
                   THEN [current_color_ EXCEPT !.h = new_color.h]
                   ELSE current_color_
        after_sv == IF sv_changed
                    THEN [after_h EXCEPT !.s = new_color.s, !.v = new_color.v]
                    ELSE after_h
    IN  IF spectrum_ = "SaturationValue"
        THEN [current_color |-> after_sv,
              canvas_cache |-> IF h_changed THEN EmptyCache ELSE canvas_cache,
              cursor_cache |-> IF h_changed \/ sv_changed
                               THEN EmptyCache ELSE cursor_cache,
              redraw |-> h_changed \/ sv_changed]
        ELSE [current_color |-> after_h,
              canvas_cache |-> canvas_cache,
              cursor_cache |-> IF h_changed THEN EmptyCache ELSE cursor_cache,
              redraw |-> h_changed]

\* A change of hue on the two-dimensional spectrum clears the background
\* cache and forgets the marker cache.
diff_h_keeps_marker(spectrum_, canvas_cache, cursor_cache, current_color_, new_color) ==
    LET h_changed == new_color.h # current_color_.h
        sv_changed == new_color.s # current_color_.s
                      \/ new_color.v # current_color_.v
        after_h == IF h_changed
                   THEN [current_color_ EXCEPT !.h = new_color.h]
                   ELSE current_color_
        after_sv == IF sv_changed
                    THEN [after_h EXCEPT !.s = new_color.s, !.v = new_color.v]
                    ELSE after_h
    IN  IF spectrum_ = "SaturationValue"
        THEN [current_color |-> after_sv,
              canvas_cache |-> IF h_changed THEN EmptyCache ELSE canvas_cache,
              cursor_cache |-> IF sv_changed THEN EmptyCache ELSE cursor_cache,
              redraw |-> h_changed \/ sv_changed]
        ELSE [current_color |-> after_sv,
              canvas_cache |-> canvas_cache,
              cursor_cache |-> IF h_changed THEN EmptyCache ELSE cursor_cache,
              redraw |-> h_changed]

\* A hue strip treats a change of saturation or value as the two-dimensional
\* spectrum does: it clears the marker cache and asks for a redraw.
diff_1d_sv_clears(spectrum_, canvas_cache, cursor_cache, current_color_, new_color) ==
    LET h_changed == new_color.h # current_color_.h
        sv_changed == new_color.s # current_color_.s
                      \/ new_color.v # current_color_.v
        after_h == IF h_changed
                   THEN [current_color_ EXCEPT !.h = new_color.h]
                   ELSE current_color_
        after_sv == IF sv_changed
                    THEN [after_h EXCEPT !.s = new_color.s, !.v = new_color.v]
                    ELSE after_h
    IN  [current_color |-> after_sv,
         canvas_cache |-> IF h_changed /\ spectrum_ = "SaturationValue"
                          THEN EmptyCache ELSE canvas_cache,
         cursor_cache |-> IF h_changed \/ sv_changed
                          THEN EmptyCache ELSE cursor_cache,
         redraw |-> h_changed \/ sv_changed]

\* On the two-dimensional spectrum a change of saturation or value alone
\* leaves the marker cache as it is.
diff_2d_sv_keeps_marker(spectrum_, canvas_cache, cursor_cache, current_color_, new_color) ==
    LET h_changed == new_color.h # current_color_.h
        sv_changed == new_color.s # current_color_.s
                      \/ new_color.v # current_color_.v
        after_h == IF h_changed
                   THEN [current_color_ EXCEPT !.h = new_color.h]
                   ELSE current_color_
        after_sv == IF sv_changed
                    THEN [after_h EXCEPT !.s = new_color.s, !.v = new_color.v]
                    ELSE after_h
    IN  IF spectrum_ = "SaturationValue"
        THEN [current_color |-> after_sv,
              canvas_cache |-> IF h_changed THEN EmptyCache ELSE canvas_cache,
              cursor_cache |-> IF h_changed THEN EmptyCache ELSE cursor_cache,
              redraw |-> h_changed \/ sv_changed]
        ELSE [current_color |-> after_sv,
              canvas_cache |-> canvas_cache,
              cursor_cache |-> IF h_changed THEN EmptyCache ELSE cursor_cache,
              redraw |-> h_changed]

\* The caches are cleared as they should be, and a redraw is asked for
\* whether or not one was.
diff_always_redraws(spectrum_, canvas_cache, cursor_cache, current_color_, new_color) ==
    LET h_changed == new_color.h # current_color_.h
        sv_changed == new_color.s # current_color_.s
                      \/ new_color.v # current_color_.v
        after_h == IF h_changed
                   THEN [current_color_ EXCEPT !.h = new_color.h]
                   ELSE current_color_
        after_sv == IF sv_changed
                    THEN [after_h EXCEPT !.s = new_color.s, !.v = new_color.v]
                    ELSE after_h
    IN  IF spectrum_ = "SaturationValue"
        THEN [current_color |-> after_sv,
              canvas_cache |-> IF h_changed THEN EmptyCache ELSE canvas_cache,
              cursor_cache |-> IF h_changed \/ sv_changed
                               THEN EmptyCache ELSE cursor_cache,
              redraw |-> TRUE]
        ELSE [current_color |-> after_sv,
              canvas_cache |-> canvas_cache,
              cursor_cache |-> IF h_changed THEN EmptyCache ELSE cursor_cache,
              redraw |-> TRUE]

(***************************************************************************)
(* fn diff: takes the host's colour over into current_color and clears the *)
(* caches the change makes stale.  The result carries the new              *)
(* current_color, the two caches and the returned redraw flag.             *)
(***************************************************************************)
diff(spectrum_, canvas_cache, cursor_cache, current_color_, new_color) ==
    LET h_changed == new_color.h # current_color_.h
        sv_changed == new_color.s # current_color_.s
                      \/ new_color.v # current_color_.v
        after_h == IF h_changed
                   THEN [current_color_ EXCEPT !.h = new_color.h]
                   ELSE current_color_
        after_sv == IF sv_changed
                    THEN [after_h EXCEPT !.s = new_color.s, !.v = new_color.v]
                    ELSE after_h
    IN  IF spectrum_ = "SaturationValue"
        THEN [current_color |-> after_sv,
              canvas_cache |-> IF h_changed THEN EmptyCache ELSE canvas_cache,
              cursor_cache |-> IF h_changed \/ sv_changed
                               THEN EmptyCache ELSE cursor_cache,
              redraw |-> h_changed \/ sv_changed]
        ELSE [current_color |-> after_sv,
              canvas_cache |-> canvas_cache,
              cursor_cache |-> IF h_changed THEN EmptyCache ELSE cursor_cache,
              redraw |-> h_changed]

(***************************************************************************)
(* State.                                                                  *)
(***************************************************************************)
VARIABLES
    \* The ColorPicker the host builds: its colour, spectrum kind and
    \* whether a handler for the right mouse button is set.
    color, spectrum, on_select_alt,
    \* The bounds of the widget's layout.
    bounds,
    \* struct State.
    spectrum_cache, marker_cache, pressed, current_color,
    \* The call whose effects the runtime has not collected yet: its
    \* operation and, for an update, the event, the cursor (recorded when
    \* the event's arm reads it) and the State the call found.  NoCall
    \* between calls.
    call,
    \* What that call did to the Shell: the messages it published, in order,
    \* and whether it requested a redraw.
    out, redraw,
    \* The last evaluation of Spectrum::requires_redraw (spectrums.rs).
    probe

vars == <<color, spectrum, on_select_alt, bounds, spectrum_cache, marker_cache,
          pressed, current_color, call, out, redraw, probe>>

Event(kind, button, id, position) ==
    [kind |-> kind, button |-> button, id |-> id, position |-> position]

NoEvent == Event("None", "None", 0, NoPoint)

StateOf(spectrum_cache_, marker_cache_, pressed_, current_color_) ==
    [spectrum_cache |-> spectrum_cache_, marker_cache |-> marker_cache_,
     pressed |-> pressed_, current_color |-> current_color_]

\* impl Default for State
DefaultState == StateOf(EmptyCache, EmptyCache, Idle, DefaultHsv)

Call(op, event, cursor, before) ==
    [op |-> op, event |-> event, cursor |-> cursor, before |-> before]

NoCall == Call("None", NoEvent, NoPoint, DefaultState)

\* shell.publish((on_select)(c)) and shell.publish(on_select_alt(c))
Message(channel, c) == [channel |-> channel, color |-> c]

Ignored(pressed_) == [pressed |-> pressed_, out |-> << >>]

(***************************************************************************)
(* The arms of update's match on the event.  Each yields the new pressed   *)
(* and the messages published; current_color_ is current_color after diff. *)
(***************************************************************************)
\* Faulty: any button's release ends a mouse drag.
ButtonReleased_any_button(mouse_button, pressed_) ==
    IF pressed_ \in {Primary, Secondary}
    THEN [pressed |-> Idle, out |-> << >>]
    ELSE Ignored(pressed_)

ButtonReleased(mouse_button, pressed_) ==
    IF \/ mouse_button = "Left" /\ pressed_ = Primary
       \/ mouse_button = "Right" /\ pressed_ = Secondary
    THEN [pressed |-> Idle, out |-> << >>]
    ELSE Ignored(pressed_)

\* Faulty: the guard does not ask for pressed.is_none().
ButtonPressed_while_dragging(mouse_button, cursor, pressed_, current_color_) ==
    IF ~Contains(bounds, cursor) THEN Ignored(pressed_)
    ELSE IF cursor = NoPoint THEN Ignored(pressed_)
    ELSE IF mouse_button = "Left"
    THEN [pressed |-> Primary,
          out |-> <<Message("on_select",
                            fetch_hsv(spectrum, current_color_, bounds, cursor))>>]
    ELSE IF mouse_button = "Right" /\ on_select_alt
    THEN [pressed |-> Secondary,
          out |-> <<Message("on_select_alt",
                            fetch_hsv(spectrum, current_color_, bounds, cursor))>>]
    ELSE Ignored(pressed_)

\* Faulty: pressed is set before the handler is looked for, so a right press
\* without on_select_alt starts a drag.
ButtonPressed_alt_unchecked(mouse_button, cursor, pressed_, current_color_) ==
    IF ~(Contains(bounds, cursor) /\ pressed_ = Idle) THEN Ignored(pressed_)
    ELSE IF cursor = NoPoint THEN Ignored(pressed_)
    ELSE IF mouse_button = "Left"
    THEN [pressed |-> Primary,
          out |-> <<Message("on_select",
                            fetch_hsv(spectrum, current_color_, bounds, cursor))>>]
    ELSE IF mouse_button = "Right"
    THEN [pressed |-> Secondary,
          out |-> IF on_select_alt
                  THEN <<Message("on_select_alt",
                                 fetch_hsv(spectrum, current_color_, bounds, cursor))>>
                  ELSE << >>]
    ELSE Ignored(pressed_)

ButtonPressed(mouse_button, cursor, pressed_, current_color_) ==
    IF ~(Contains(bounds, cursor) /\ pressed_ = Idle) THEN Ignored(pressed_)
    ELSE IF cursor = NoPoint THEN Ignored(pressed_)
    ELSE IF mouse_button = "Left"
    THEN [pressed |-> Primary,
          out |-> <<Message("on_select",
                            fetch_hsv(spectrum, current_color_, bounds, cursor))>>]
    ELSE IF mouse_button = "Right" /\ on_select_alt
    THEN [pressed |-> Secondary,
          out |-> <<Message("on_select_alt",
                            fetch_hsv(spectrum, current_color_, bounds, cursor))>>]
    ELSE Ignored(pressed_)

\* Faulty: a move publishes only while the cursor is over the bounds.
CursorMoved_in_bounds_only(cursor, pressed_, current_color_) ==
    IF Contains(bounds, cursor) /\ pressed_ # Idle
    THEN LET new_color == fetch_hsv(spectrum, current_color_, bounds, cursor)
         IN  IF pressed_ = Primary
             THEN [pressed |-> pressed_,
                   out |-> <<Message("on_select", new_color)>>]
             ELSE IF pressed_ = Secondary /\ on_select_alt
             THEN [pressed |-> pressed_,
                   out |-> <<Message("on_select_alt", new_color)>>]
             ELSE Ignored(pressed_)
    ELSE Ignored(pressed_)

\* Faulty: a cursor move publishes during a finger drag too.
CursorMoved_any_drag(cursor, pressed_, current_color_) ==
    IF cursor # NoPoint /\ pressed_ # Idle
    THEN LET new_color == fetch_hsv(spectrum, current_color_, bounds, cursor)
         IN  IF pressed_ = Secondary
             THEN IF on_select_alt
                  THEN [pressed |-> pressed_,
                        out |-> <<Message("on_select_alt", new_color)>>]
                  ELSE Ignored(pressed_)
             ELSE [pressed |-> pressed_,
                   out |-> <<Message("on_select", new_color)>>]
    ELSE Ignored(pressed_)

\* Faulty: a cursor move during a right-button drag publishes on the primary
\* channel.
CursorMoved_primary_channel(cursor, pressed_, current_color_) ==
    IF cursor # NoPoint /\ pressed_ # Idle
    THEN LET new_color == fetch_hsv(spectrum, current_color_, bounds, cursor)
         IN  IF pressed_ = Primary \/ (pressed_ = Secondary /\ on_select_alt)
             THEN [pressed |-> pressed_,
                   out |-> <<Message("on_select", new_color)>>]
             ELSE Ignored(pressed_)
    ELSE Ignored(pressed_)

CursorMoved(cursor, pressed_, current_color_) ==
    IF cursor # NoPoint /\ pressed_ # Idle
    THEN LET new_color == fetch_hsv(spectrum, current_color_, bounds, cursor)
         IN  IF pressed_ = Primary
             THEN [pressed |-> pressed_,
                   out |-> <<Message("on_select", new_color)>>]
             ELSE IF pressed_ = Secondary /\ on_select_alt
             THEN [pressed |-> pressed_,
                   out |-> <<Message("on_select_alt", new_color)>>]
             ELSE Ignored(pressed_)
    ELSE Ignored(pressed_)

\* Faulty: a finger press is accepted wherever it lands.
FingerPressed_anywhere(id, position, pressed_, current_color_) ==
    IF pressed_ = Idle
    THEN [pressed |-> Finger(id),
          out |-> <<Message("on_select",
                            fetch_hsv(spectrum, current_color_, bounds, position))>>]
    ELSE Ignored(pressed_)

FingerPressed(id, position, pressed_, current_color_) ==
    IF Contains(bounds, position) /\ pressed_ = Idle
    THEN [pressed |-> Finger(id),
          out |-> <<Message("on_select",
                            fetch_hsv(spectrum, current_color_, bounds, position))>>]
    ELSE Ignored(pressed_)

FingerMoved(id, position, pressed_, current_color_) ==
    IF pressed_.kind = "Finger" /\ id = pressed_.id
    THEN [pressed |-> pressed_,
          out |-> <<Message("on_select",
                            fetch_hsv(spectrum, current_color_, bounds, position))>>]
    ELSE Ignored(pressed_)

FingerLifted(id, pressed_) ==
    IF pressed_.kind = "Finger" /\ id = pressed_.id
    THEN [pressed |-> Idle, out |-> << >>]
    ELSE Ignored(pressed_)

(***************************************************************************)
(* ColorPicker::update: diff first, then the event's arm.  The runtime      *)
(* makes one call at a time (call = NoCall when it starts one).            *)
(***************************************************************************)
Diffed(new_color) ==
    diff(spectrum, spectrum_cache, marker_cache, current_color, new_color)

Update(new_color, event, cursor, arm) ==
    LET d == Diffed(new_color)
    IN  /\ color' = new_color
        /\ current_color' = d.current_color
        /\ spectrum_cache' = d.canvas_cache
        /\ marker_cache' = d.cursor_cache
        /\ redraw' = d.redraw
        /\ pressed' = arm.pressed
        /\ out' = arm.out
        /\ call' = Call("update", event, cursor,
                        StateOf(spectrum_cache, marker_cache, pressed,
                                current_color))
        /\ UNCHANGED <<spectrum, on_select_alt, bounds, probe>>

MouseButtonReleased ==
    /\ call = NoCall
    /\ \E new_color \in HostColors, b \in Buttons :
            Update(new_color, Event("ButtonReleased", b, 0, NoPoint), NoPoint,
                   ButtonReleased(b, pressed))

MouseButtonPressed ==
    /\ call = NoCall
    /\ \E new_color \in HostColors, b \in Buttons, cursor \in Cursors :
            Update(new_color, Event("ButtonPressed", b, 0, NoPoint), cursor,
                   ButtonPressed(b, cursor, pressed,
                                 Diffed(new_color).current_color))

MouseCursorMoved ==
    /\ call = NoCall
    /\ \E new_color \in HostColors, cursor \in Cursors :
            Update(new_color, Event("CursorMoved", "None", 0, NoPoint), cursor,
                   CursorMoved(cursor, pressed, Diffed(new_color).current_color))

TouchFingerPressed ==
    /\ call = NoCall
    /\ \E new_color \in HostColors, id \in FingerIds, position \in Points :
            Update(new_color, Event("FingerPressed", "None", id, position), NoPoint,
                   FingerPressed(id, position, pressed,
                                 Diffed(new_color).current_color))

TouchFingerMoved ==
    /\ call = NoCall
    /\ \E new_color \in HostColors, id \in FingerIds, position \in Points :
            Update(new_color, Event("FingerMoved", "None", id, position), NoPoint,
                   FingerMoved(id, position, pressed,
                               Diffed(new_color).current_color))

TouchFingerLifted ==
    /\ call = NoCall
    /\ \E new_color \in HostColors, id \in FingerIds :
            Update(new_color, Event("FingerLifted", "None", id, NoPoint), NoPoint,
                   FingerLifted(id, pressed))

\* Every event the match leaves to a `_ => ()` arm: the other mouse events
\* (a wheel scroll, the cursor entering or leaving), FingerLost, and the
\* keyboard, window and input-method events.
OtherKinds == {"WheelScrolled", "FingerLost", "Keyboard", "Window"}

OtherEvent ==
    /\ call = NoCall
    /\ \E new_color \in HostColors, kind \in OtherKinds :
            Update(new_color, Event(kind, "None", 0, NoPoint), NoPoint,
                   Ignored(pressed))

(***************************************************************************)
(* ColorPicker::draw: both layers through their caches.                    *)
(***************************************************************************)
SpectrumGeometry ==
    IF spectrum = "SaturationValue"
    THEN <<current_color.h>>
    ELSE <<Num(1), Num(1)>>

MarkerGeometry(size) ==
    LET m == marker(spectrum, current_color, size)
    IN  <<m.position, <<m.color.r, m.color.g, m.color.b, m.color.a>>>>

Draw ==
    LET size == <<bounds.width, bounds.height>>
    IN  /\ call = NoCall
        /\ spectrum_cache' = CacheDraw(spectrum_cache, size, SpectrumGeometry)
        /\ marker_cache' = CacheDraw(marker_cache, size, MarkerGeometry(size))
        /\ call' = Call("draw", NoEvent, NoPoint,
                        StateOf(spectrum_cache, marker_cache, pressed,
                                current_color))
        /\ out' = << >>
        /\ redraw' = FALSE
        /\ UNCHANGED <<color, spectrum, on_select_alt, bounds, pressed,
                       current_color, probe>>

\* The call returns and the runtime takes what it left in the Shell: a Shell
\* is made for each call.
Collect ==
    /\ call # NoCall
    /\ call' = NoCall
    /\ out' = << >>
    /\ redraw' = FALSE
    /\ UNCHANGED <<color, spectrum, on_select_alt, bounds, spectrum_cache,
                   marker_cache, pressed, current_color, probe>>

(***************************************************************************)
(* spectrums.rs: the Spectrum given by an optional HSV component per axis.  *)
(***************************************************************************)
HsvComponents == {"Hue", "Saturation", "Value"}

\* Option<HsvComponent>
Axes == HsvComponents \cup {"None"}

get_hsv_component(comp, c) ==
    CASE comp = "Hue" -> c.h
      [] comp = "Saturation" -> c.s
      [] comp = "Value" -> c.v

\* Faulty: only the x axis is looked at.
requires_redraw_x_only(self, old_color, new_color) ==
    /\ self.x_axis # "None"
    /\ get_hsv_component(self.x_axis, old_color)
           # get_hsv_component(self.x_axis, new_color)

requires_redraw(self, old_color, new_color) ==
    IF /\ self.x_axis # "None"
       /\ get_hsv_component(self.x_axis, old_color)
              # get_hsv_component(self.x_axis, new_color)
    THEN TRUE
    ELSE IF /\ self.y_axis # "None"
            /\ get_hsv_component(self.y_axis, old_color)
                   # get_hsv_component(self.y_axis, new_color)
    THEN TRUE
    ELSE FALSE

\* The colours requires_redraw is evaluated on: two values of each component
\* and of alpha.
ProbeColors ==
    {hsva(h, s, v, a) : h \in {Num(0), Num(120)}, s \in {Num(0), Rat(1, 2)},
                        v \in {Num(0), Rat(1, 2)}, a \in {Num(1), Rat(1, 2)}}

NoProbe ==
    [self |-> [x_axis |-> "None", y_axis |-> "None"],
     old_color |-> DefaultHsv, new_color |-> DefaultHsv,
     done |-> FALSE, result |-> FALSE]

\* ColorPicker::new and State::default.
Init ==
    /\ color \in HostColors
    /\ spectrum \in Spectrums
    /\ on_select_alt \in BOOLEAN
    /\ bounds \in BoundsSet
    /\ spectrum_cache = EmptyCache
    /\ marker_cache = EmptyCache
    /\ pressed = Idle
    /\ current_color = DefaultHsv
    /\ call = NoCall
    /\ out = << >>
    /\ redraw = FALSE
    /\ probe = NoProbe

Next ==
    \/ MouseButtonReleased
    \/ MouseButtonPressed
    \/ MouseCursorMoved
    \/ TouchFingerPressed
    \/ TouchFingerMoved
    \/ TouchFingerLifted
    \/ OtherEvent
    \/ Draw
    \/ Collect

Spec == Init /\ [][Next]_vars

(***************************************************************************)
(* Spectrum::requires_redraw on every axis assignment and pair of colours. *)
(***************************************************************************)
InitRedraw ==
    /\ color = DefaultHsv
    /\ spectrum = "SaturationValue"
    /\ on_select_alt = FALSE
    /\ bounds \in BoundsSet
    /\ spectrum_cache = EmptyCache
    /\ marker_cache = EmptyCache
    /\ pressed = Idle
    /\ current_color = DefaultHsv
    /\ call = NoCall
    /\ out = << >>
    /\ redraw = FALSE
    /\ probe \in [self : [x_axis : Axes, y_axis : Axes],
                  old_color : ProbeColors, new_color : ProbeColors,
                  done : {FALSE}, result : {FALSE}]

RequiresRedraw ==
    /\ ~probe.done
    /\ probe' = [probe EXCEPT
                    !.done = TRUE,
                    !.result = requires_redraw(probe.self, probe.old_color,
                                               probe.new_color)]
    /\ UNCHANGED <<color, spectrum, on_select_alt, bounds, spectrum_cache,
                   marker_cache, pressed, current_color, call, out, redraw>>

NextRedraw == RequiresRedraw

SpecRedraw == InitRedraw /\ [][NextRedraw]_vars

(***************************************************************************)
(* Properties.  In a state with call.op = "update" the call's event and    *)
(* cursor, the State it found (call.before) and what it published (out)    *)
(* are all at hand, so a property of one update call is a state predicate. *)
(***************************************************************************)
IsUpdate == call.op = "update"

Was == call.before

IsPress(button) ==
    IsUpdate /\ call.event.kind = "ButtonPressed" /\ call.event.button = button

IsRelease(button) ==
    IsUpdate /\ call.event.kind = "ButtonReleased" /\ call.event.button = button

IsKind(kind) == IsUpdate /\ call.event.kind = kind

\* The sequence holding one message on a channel, for the colour at a
\* position under the spectrum, the bounds and current_color as they are now.
OneMessage(channel, position) ==
    <<Message(channel, fetch_hsv(spectrum, current_color, bounds, position))>>

\* The point of the bounds rectangle nearest to a position.
ClampInto(b, p) ==
    <<IF p[1] < b.x THEN b.x
      ELSE IF p[1] > b.x + b.width THEN b.x + b.width ELSE p[1],
      IF p[2] < b.y THEN b.y
      ELSE IF p[2] > b.y + b.height THEN b.y + b.height ELSE p[2]>>

\* C1: from Idle, a left-button press with the cursor inside the bounds leads
\* to Primary and a finger press with id i inside the bounds to Finger(i),
\* each publishing exactly one message on the primary channel, for the colour
\* fetch_hsv gives at the position; a press outside the bounds stays Idle
\* and publishes nothing.
C1_PressFromIdle ==
    (IsUpdate /\ Was.pressed = Idle) =>
        /\ (IsPress("Left") /\ Contains(bounds, call.cursor)) =>
               /\ pressed = Primary
               /\ out = OneMessage("on_select", call.cursor)
        /\ (IsKind("FingerPressed") /\ Contains(bounds, call.event.position)) =>
               /\ pressed = Finger(call.event.id)
               /\ out = OneMessage("on_select", call.event.position)
        /\ (IsKind("ButtonPressed") /\ ~Contains(bounds, call.cursor)) =>
               pressed = Idle /\ out = << >>
        /\ (IsKind("FingerPressed") /\ ~Contains(bounds, call.event.position)) =>
               pressed = Idle /\ out = << >>

C1_Witness ==
    /\ IsKind("FingerPressed")
    /\ Was.pressed = Idle
    /\ pressed = Finger(call.event.id)
    /\ Len(out) = 1

\* C2: while a drag is active every mouse-button press and every finger press
\* leaves pressed as it is and publishes nothing; a move of a finger other
\* than the active one publishes nothing; a finger drag gives way only to
\* Idle, by FingerLifted of its own id, and a finger becomes the active one
\* only from Idle, by its own FingerPressed.
C2_OneInteraction ==
    IsUpdate =>
        /\ (Was.pressed # Idle /\ call.event.kind \in {"ButtonPressed", "FingerPressed"}) =>
               pressed = Was.pressed /\ out = << >>
        /\ (Was.pressed.kind = "Finger" /\ IsKind("FingerMoved")
               /\ call.event.id # Was.pressed.id) =>
               pressed = Was.pressed /\ out = << >>
        /\ (Was.pressed.kind = "Finger" /\ pressed # Was.pressed) =>
               /\ IsKind("FingerLifted")
               /\ call.event.id = Was.pressed.id
               /\ pressed = Idle
        /\ (pressed.kind = "Finger" /\ pressed # Was.pressed) =>
               /\ Was.pressed = Idle
               /\ IsKind("FingerPressed")
               /\ call.event.id = pressed.id

C2_Witness ==
    /\ IsKind("FingerPressed")
    /\ Contains(bounds, call.event.position)
    /\ Was.pressed.kind = "Finger"
    /\ Was.pressed.id # call.event.id
    /\ pressed = Was.pressed
    /\ out = << >>

\* C3: from Idle, a right-button press with the cursor inside the bounds
\* leads to Secondary and publishes exactly one message, on the secondary
\* channel, when on_select_alt is set; when it is not set the press stays
\* Idle and publishes nothing.
C3_SecondaryPress ==
    (Was.pressed = Idle /\ IsPress("Right") /\ Contains(bounds, call.cursor)) =>
        IF on_select_alt
        THEN pressed = Secondary /\ out = OneMessage("on_select_alt", call.cursor)
        ELSE pressed = Idle /\ out = << >>

C3_Witness ==
    /\ IsPress("Right")
    /\ Was.pressed = Idle
    /\ pressed = Secondary
    /\ Len(out) = 1
    /\ out[1].channel = "on_select_alt"

\* C4: during a drag a move of the active pointer publishes exactly one
\* message and leaves pressed as it is: a cursor move (with a position) on
\* the primary channel in Primary and on the secondary channel in Secondary,
\* a move of finger i on the primary channel in Finger(i); the colour is the
\* one fetch_hsv gives at the position, which is the colour at the nearest
\* point of the bounds when the position is outside them.  A move of another
\* finger publishes nothing.
C4_DragMoves ==
    IsUpdate =>
        /\ (IsKind("CursorMoved") /\ call.cursor # NoPoint /\ Was.pressed = Primary) =>
               /\ pressed = Was.pressed
               /\ out = OneMessage("on_select", call.cursor)
               /\ out = OneMessage("on_select", ClampInto(bounds, call.cursor))
        /\ (IsKind("CursorMoved") /\ call.cursor # NoPoint /\ Was.pressed = Secondary) =>
               /\ pressed = Was.pressed
               /\ out = OneMessage("on_select_alt", call.cursor)
               /\ out = OneMessage("on_select_alt", ClampInto(bounds, call.cursor))
        /\ (IsKind("FingerMoved") /\ Was.pressed = Finger(call.event.id)) =>
               /\ pressed = Was.pressed
               /\ out = OneMessage("on_select", call.event.position)
               /\ out = OneMessage("on_select", ClampInto(bounds, call.event.position))
        /\ (IsKind("FingerMoved") /\ Was.pressed # Finger(call.event.id)) =>
               pressed = Was.pressed /\ out = << >>

C4_Witness ==
    /\ IsKind("CursorMoved")
    /\ call.cursor # NoPoint
    /\ ~Contains(bounds, call.cursor)
    /\ Was.pressed = Secondary
    /\ Len(out) = 1

\* C5: a drag ends on its matching release and on nothing else: a left
\* release in Primary, a right release in Secondary and FingerLifted of id i
\* in Finger(i) lead to Idle and publish nothing; any other release or lift
\* leaves pressed as it is, and no other event ends a drag.
C5_Release ==
    LET matching ==
            \/ IsRelease("Left") /\ Was.pressed = Primary
            \/ IsRelease("Right") /\ Was.pressed = Secondary
            \/ IsKind("FingerLifted") /\ Was.pressed = Finger(call.event.id)
    IN  IsUpdate =>
            /\ matching => pressed = Idle /\ out = << >>
            /\ (call.event.kind \in {"ButtonReleased", "FingerLifted"} /\ ~matching) =>
                   pressed = Was.pressed /\ out = << >>
            /\ (Was.pressed # Idle /\ pressed # Was.pressed) => matching

C5_Witness ==
    /\ IsKind("FingerLifted")
    /\ Was.pressed = Finger(call.event.id)
    /\ pressed = Idle

\* The transitions of the interaction state machine: the accepted presses
\* from Idle, the moves of the active pointer, and the matching releases.
ListedTransition ==
    \/ /\ Was.pressed = Idle
       /\ \/ IsPress("Left") /\ Contains(bounds, call.cursor)
          \/ IsPress("Right") /\ Contains(bounds, call.cursor) /\ on_select_alt
          \/ IsKind("FingerPressed") /\ Contains(bounds, call.event.position)
    \/ /\ IsKind("CursorMoved")
       /\ call.cursor # NoPoint
       /\ Was.pressed \in {Primary, Secondary}
    \/ IsKind("FingerMoved") /\ Was.pressed = Finger(call.event.id)
    \/ IsRelease("Left") /\ Was.pressed = Primary
    \/ IsRelease("Right") /\ Was.pressed = Secondary
    \/ IsKind("FingerLifted") /\ Was.pressed = Finger(call.event.id)

\* C6: an update publishes at most one message, and an event that is none of
\* the listed transitions for the state it arrives in leaves pressed as it is
\* and publishes nothing.
C6_OtherEventsIgnored ==
    IsUpdate =>
        /\ Len(out) <= 1
        /\ ~ListedTransition => (pressed = Was.pressed /\ out = << >>)

C6_Witness ==
    /\ IsKind("CursorMoved")
    /\ call.cursor # NoPoint
    /\ Was.pressed.kind = "Finger"
    /\ pressed = Was.pressed
    /\ out = << >>

\* The position an update's event carries: the touch position of a finger
\* event, the cursor of a mouse event.
PointerPosition ==
    IF call.event.kind \in {"FingerPressed", "FingerMoved"}
    THEN call.event.position
    ELSE call.cursor

\* C7: after every update, whatever its event and the interaction state it
\* found, current_color has the hue, saturation and value of the colour the
\* host supplied, for every spectrum; and the colour was taken over before
\* the event was handled: a message the call publishes is computed from the
\* supplied hue, saturation and value.
C7_HostColorTakenOver ==
    IsUpdate =>
        /\ current_color.h = color.h
        /\ current_color.s = color.s
        /\ current_color.v = color.v
        /\ out # << >> =>
               out[1].color =
                   fetch_hsv(spectrum,
                             hsva(color.h, color.s, color.v, Was.current_color.a),
                             bounds, PointerPosition)

C7_Witness ==
    /\ IsUpdate
    /\ Was.pressed # Idle
    /\ Was.current_color # current_color
    /\ ~redraw
    /\ out # << >>

\* C8: on the two-dimensional spectrum, an update whose colour differs from
\* current_color in hue empties both caches; one that differs in saturation
\* or value and not in hue empties the marker cache and leaves the
\* background cache as it is; one that differs in none of the three leaves
\* both caches as they are.
C8_Diff2D ==
    LET h_differs == color.h # Was.current_color.h
        sv_differs == color.s # Was.current_color.s \/ color.v # Was.current_color.v
    IN  (IsUpdate /\ spectrum = "SaturationValue") =>
            /\ h_differs =>
                   spectrum_cache = EmptyCache /\ marker_cache = EmptyCache
            /\ (~h_differs /\ sv_differs) =>
                   /\ marker_cache = EmptyCache
                   /\ spectrum_cache = Was.spectrum_cache
            /\ (~h_differs /\ ~sv_differs) =>
                   /\ marker_cache = Was.marker_cache
                   /\ spectrum_cache = Was.spectrum_cache

C8_Witness ==
    /\ IsUpdate
    /\ spectrum = "SaturationValue"
    /\ Was.spectrum_cache.filled
    /\ Was.marker_cache.filled
    /\ spectrum_cache.filled
    /\ ~marker_cache.filled

\* C9: on a one-dimensional (hue) spectrum no update touches the background
\* cache; an update whose colour differs from current_color in hue empties
\* the marker cache; one that differs only in saturation or value leaves
\* both caches as they are and requests no redraw.
C9_Diff1D ==
    LET h_differs == color.h # Was.current_color.h
    IN  (IsUpdate /\ spectrum \in {"HueHorizontal", "HueVertical"}) =>
            /\ spectrum_cache = Was.spectrum_cache
            /\ h_differs => marker_cache = EmptyCache
            /\ ~h_differs => (marker_cache = Was.marker_cache /\ ~redraw)

C9_Witness ==
    /\ IsUpdate
    /\ spectrum = "HueVertical"
    /\ Was.marker_cache.filled
    /\ marker_cache.filled
    /\ Was.current_color.s # color.s
    /\ ~redraw

\* The components a Spectrum assigns to its axes.
Assigned(self) == {self.x_axis, self.y_axis} \ {"None"}

ComponentDiffers(comp, old_color, new_color) ==
    \/ comp = "Hue" /\ old_color.h # new_color.h
    \/ comp = "Saturation" /\ old_color.s # new_color.s
    \/ comp = "Value" /\ old_color.v # new_color.v

\* C10: for every axis assignment and every pair of colours, requires_redraw
\* is true exactly when a component assigned to the x axis or to the y axis
\* differs between the old and the new colour; a change confined to
\* unassigned components and alpha gives false.
C10_RequiresRedraw ==
    probe.done =>
        probe.result =
            (\E comp \in Assigned(probe.self) :
                 ComponentDiffers(comp, probe.old_color, probe.new_color))

C10_Witness ==
    /\ probe.done
    /\ ~probe.result
    /\ Assigned(probe.self) # {}
    /\ probe.old_color.a # probe.new_color.a
    /\ \E comp \in HsvComponents :
           ComponentDiffers(comp, probe.old_color, probe.new_color)


(***************************************************************************)
(* The constructors of Spectrum (spectrums.rs).                            *)
(***************************************************************************)
new_vertical(comp) == [x_axis |-> "None", y_axis |-> comp]

new_horizontal(comp) == [x_axis |-> comp, y_axis |-> "None"]

new_matrix(x_comp, y_comp) == [x_axis |-> x_comp, y_axis |-> y_comp]

get_saturation_value == [x_axis |-> "Saturation", y_axis |-> "Value"]

get_hue_vertical == new_vertical("Hue")

get_hue_horizontal == new_horizontal("Hue")

\* The Spectrum that stands for a spectrum kind of the widget.
SpectrumOfKind(kind) ==
    CASE kind = "SaturationValue" -> get_saturation_value
      [] kind = "HueVertical" -> get_hue_vertical
      [] kind = "HueHorizontal" -> get_hue_horizontal

\* A colour change confined to components the Spectrum assigns to no axis.
OnlyUnassignedDiffer(self, old_color, new_color) ==
    /\ \E comp \in HsvComponents \ Assigned(self) :
           ComponentDiffers(comp, old_color, new_color)
    /\ \A comp \in Assigned(self) :
           ~ComponentDiffers(comp, old_color, new_color)

\* C11: a change of unassigned components alone gives requires_redraw =
\* FALSE on a one-dimensional spectrum and TRUE on a two-dimensional one
\* (whose background holds the unassigned components constant), and on the
\* widget's three spectrum kinds requires_redraw agrees with the redraw flag
\* of diff.
C11_UnassignedChange ==
    LET self == probe.self
        one_d == (self.x_axis = "None") # (self.y_axis = "None")
        two_d == self.x_axis # "None" /\ self.y_axis # "None"
    IN  probe.done =>
            /\ OnlyUnassignedDiffer(self, probe.old_color, probe.new_color) =>
                   /\ one_d => ~probe.result
                   /\ two_d => probe.result
            /\ \A kind \in Spectrums :
                   self = SpectrumOfKind(kind) =>
                       probe.result = diff(kind, EmptyCache, EmptyCache,
                                           probe.old_color, probe.new_color).redraw


\* C12: every colour emitted by a press or a drag move carries the alpha of
\* the last colour the host supplied, and that colour's value of every
\* component the spectrum assigns to no axis.
C12_CarriesHost ==
    IsUpdate =>
        \A i \in 1..Len(out) :
            LET emitted == out[i].color
            IN  /\ emitted.a = color.a
                /\ \A comp \in HsvComponents \ Assigned(SpectrumOfKind(spectrum)) :
                       get_hsv_component(comp, emitted)
                           = get_hsv_component(comp, color)


(***************************************************************************)
(* Spectrum::fetch_hsv, Spectrum::modify_hsv and Spectrum::get_marker_pos  *)
(* (spectrums.rs), evaluated together with fetch_hsv and marker of the     *)
(* widget on every axis assignment, bounds and cursor.                     *)
(***************************************************************************)
\* Faulty: the y axis is applied first and the x axis second.
modify_hsv_y_first(self, col_percent, row_percent, c) ==
    LET set(comp, percent, in) ==
            CASE comp = "None" -> in
              [] comp = "Hue" -> [in EXCEPT !.h = FMul(percent, Num(360))]
              [] comp = "Saturation" -> [in EXCEPT !.s = percent]
              [] comp = "Value" -> [in EXCEPT !.v = FSub(Num(1), percent)]
    IN  set(self.x_axis, col_percent, set(self.y_axis, row_percent, c))

\* The x axis is applied first and the y axis second, on the same h, s, v.
modify_hsv(self, col_percent, row_percent, c) ==
    LET set(comp, percent, in) ==
            CASE comp = "None" -> in
              [] comp = "Hue" -> [in EXCEPT !.h = FMul(percent, Num(360))]
              [] comp = "Saturation" -> [in EXCEPT !.s = percent]
              [] comp = "Value" -> [in EXCEPT !.v = FSub(Num(1), percent)]
    IN  set(self.y_axis, row_percent, set(self.x_axis, col_percent, c))

Spectrum_fetch_hsv(self, color_, bounds_, cursor_) ==
    LET x == cursor_[1] - bounds_.x
        y == cursor_[2] - bounds_.y
        col_percent == Percent(x, bounds_.width)
        row_percent == Percent(y, bounds_.height)
    IN  modify_hsv(self, col_percent, row_percent, color_)

\* Faulty: every axis is placed at the midpoint.
get_marker_pos_midpoint(self, color_, size) ==
    <<FMul(Rat(1, 2), Num(size[1])), FMul(Rat(1, 2), Num(size[2]))>>

get_marker_pos(self, color_, size) ==
    LET percent(comp) ==
            CASE comp = "None" -> FDiv(Num(1), Num(2))
              [] comp = "Hue" ->
                   FDiv(get_hsv_component(comp, color_), Num(360))
              [] comp = "Saturation" -> get_hsv_component(comp, color_)
              [] comp = "Value" ->
                   FSub(Num(1), get_hsv_component(comp, color_))
    IN  <<FMul(percent(self.x_axis), Num(size[1])),
          FMul(percent(self.y_axis), Num(size[2]))>>

\* How far outside the bounds the far cursors lie.
Far == 1000

\* The bounds of the evaluation: every positive width and height up to
\* MaxCoord, away from the origin.
FetchBounds == {Rect(1, 2, w, h) : w \in 1..MaxCoord, h \in 1..MaxCoord}

\* The coordinates a cursor takes along a side that starts at origin: one
\* before the side to one after it, and far before and far after it.
FetchCoords(origin, extent) ==
    ((origin - 1)..(origin + extent + 1))
        \cup {origin - Far, origin + extent + Far}

\* The base colours: in range, none of their components at a value a
\* percentage of the bounds above can take.
FetchColors ==
    {hsva(Num(120), Rat(3, 10), Rat(3, 10), Num(1)),
     hsva(Num(7), Rat(1, 7), Rat(2, 7), Rat(1, 2))}

InitFetch ==
    /\ color = DefaultHsv
    /\ spectrum = "SaturationValue"
    /\ on_select_alt = FALSE
    /\ bounds \in BoundsSet
    /\ spectrum_cache = EmptyCache
    /\ marker_cache = EmptyCache
    /\ pressed = Idle
    /\ current_color = DefaultHsv
    /\ call = NoCall
    /\ out = << >>
    /\ redraw = FALSE
    /\ \E self \in [x_axis : Axes, y_axis : Axes], kind \in Spectrums,
          base \in FetchColors, b \in FetchBounds :
           \E cx \in FetchCoords(b.x, b.width),
              cy \in FetchCoords(b.y, b.height) :
               probe = [self |-> self, kind |-> kind, color |-> base,
                        bounds |-> b, cursor |-> <<cx, cy>>, done |-> FALSE,
                        hsv |-> base, kind_hsv |-> base,
                        position |-> <<Num(0), Num(0)>>,
                        kind_position |-> <<Num(0), Num(0)>>]

\* The colour under the cursor, and the marker position of that colour, by
\* the Spectrum and by the widget's spectrum kind.
FetchHsv ==
    /\ ~probe.done
    /\ LET size == <<probe.bounds.width, probe.bounds.height>>
           found == Spectrum_fetch_hsv(probe.self, probe.color, probe.bounds,
                                       probe.cursor)
           kind_found == fetch_hsv(probe.kind, probe.color, probe.bounds,
                                   probe.cursor)
       IN  probe' = [probe EXCEPT
                        !.done = TRUE,
                        !.hsv = found,
                        !.kind_hsv = kind_found,
                        !.position = get_marker_pos(probe.self, found, size),
                        !.kind_position =
                            marker(probe.kind, kind_found, size).position]
    /\ UNCHANGED <<color, spectrum, on_select_alt, bounds, spectrum_cache,
                   marker_cache, pressed, current_color, call, out, redraw>>

NextFetch == FetchHsv

SpecFetch == InitFetch /\ [][NextFetch]_vars

\* C13: the colour found at any cursor is the colour found at that cursor
\* clamped into the bounds rectangle, for every axis assignment, spectrum
\* kind, base colour and positive-area bounds; a cursor Far before the bounds
\* on both axes finds the colour at the bounds' position.
C13_Clamps ==
    probe.done =>
        LET b == probe.bounds
            clamped == ClampInto(b, probe.cursor)
        IN  /\ probe.hsv
                   = Spectrum_fetch_hsv(probe.self, probe.color, b, clamped)
            /\ probe.kind_hsv = fetch_hsv(probe.kind, probe.color, b, clamped)
            /\ probe.cursor = <<b.x - Far, b.y - Far>> =>
                   /\ probe.hsv = Spectrum_fetch_hsv(probe.self, probe.color,
                                                     b, <<b.x, b.y>>)
                   /\ probe.kind_hsv = fetch_hsv(probe.kind, probe.color, b,
                                                 <<b.x, b.y>>)

\* A cursor Far before the bounds on both axes has been evaluated on a
\* spectrum with both axes assigned; the colour found is the base colour with
\* both percentages at 0.
C13_Witness ==
    /\ probe.done
    /\ probe.cursor = <<probe.bounds.x - Far, probe.bounds.y - Far>>
    /\ probe.self = get_saturation_value
    /\ probe.kind = "SaturationValue"
    /\ probe.hsv = [probe.color EXCEPT !.s = Num(0), !.v = Num(1)]
    /\ probe.kind_hsv = probe.hsv


\* A point strictly inside a rectangle.
StrictlyInside(b, p) ==
    /\ b.x < p[1] /\ p[1] < b.x + b.width
    /\ b.y < p[2] /\ p[2] < b.y + b.height

\* The marker position that stands for point p under axes self: p relative
\* to the bounds' origin on an assigned axis, the midpoint on an unassigned
\* one.
MarksPoint(self, b, p, position) ==
    /\ position[1] = IF self.x_axis = "None"
                     THEN Rat(b.width, 2) ELSE Num(p[1] - b.x)
    /\ position[2] = IF self.y_axis = "None"
                     THEN Rat(b.height, 2) ELSE Num(p[2] - b.y)

\* C14 as stated: for every axis assignment, the same component on both axes
\* included, and every point strictly inside the bounds, the marker position
\* of the colour found at the point is the point relative to the bounds'
\* origin on every assigned axis and the midpoint on an unassigned axis.
C14_AnyAssignment ==
    probe.done /\ StrictlyInside(probe.bounds, probe.cursor) =>
        /\ MarksPoint(probe.self, probe.bounds, probe.cursor, probe.position)
        /\ MarksPoint(SpectrumOfKind(probe.kind), probe.bounds, probe.cursor,
                      probe.kind_position)

\* C14, amended: the same holds whenever the two axes are not assigned the
\* same component, and for the widget's three spectrum kinds.
C14_DistinctAxes ==
    probe.done /\ StrictlyInside(probe.bounds, probe.cursor) =>
        /\ (probe.self.x_axis = "None" \/ probe.self.x_axis # probe.self.y_axis)
               => MarksPoint(probe.self, probe.bounds, probe.cursor,
                             probe.position)
        /\ MarksPoint(SpectrumOfKind(probe.kind), probe.bounds, probe.cursor,
                      probe.kind_position)

\* A point strictly inside 3 x 3 bounds, off the diagonal and off the
\* midpoint, has been mapped through Hue on x and Value on y and back onto
\* itself.
C14_Witness ==
    /\ probe.done
    /\ probe.bounds = Rect(1, 2, 3, 3)
    /\ probe.cursor = <<2, 4>>
    /\ probe.self = new_matrix("Hue", "Value")
    /\ probe.hsv.h = Num(120)
    /\ probe.hsv.v = Rat(1, 3)
    /\ probe.position = <<Num(1), Num(2)>>


\* a <= b on finite values.
FLe(a, b) == ~FLt(b, a)

\* Saturation and value of a colour lie in [0, 1].
UnitSV(c) ==
    /\ FLe(Num(0), c.s) /\ FLe(c.s, Num(1))
    /\ FLe(Num(0), c.v) /\ FLe(c.v, Num(1))

\* C15 as stated: every colour emitted has h in [0, 360), s in [0, 1] and
\* v in [0, 1], wherever the cursor is.
C15_HalfOpenHue ==
    IsUpdate =>
        \A i \in 1..Len(out) :
            /\ FLe(Num(0), out[i].color.h) /\ FLt(out[i].color.h, Num(360))
            /\ UnitSV(out[i].color)

\* C15, amended: every colour emitted has h in [0, 360], s in [0, 1] and
\* v in [0, 1], wherever the cursor is.
C15_ClosedHue ==
    IsUpdate =>
        \A i \in 1..Len(out) :
            /\ FLe(Num(0), out[i].color.h) /\ FLe(out[i].color.h, Num(360))
            /\ UnitSV(out[i].color)

\* A drag on a hue spectrum has moved to a cursor on or beyond the far edge
\* of the bounds and emitted a colour with h = 360.
C15_Witness ==
    /\ IsKind("CursorMoved")
    /\ spectrum = "HueHorizontal"
    /\ call.cursor # NoPoint
    /\ call.cursor[1] >= bounds.x + bounds.width
    /\ Len(out) = 1
    /\ out[1].color.h = Num(360)


(***************************************************************************)
(* The picker under a host that lays it out anew between updates, the      *)
(* sizes it hands out including zero width and zero height.                *)
(***************************************************************************)
LayoutBounds == BoundsSet \cup {Rect(1, 1, 0, 2), Rect(1, 1, 2, 0)}

\* ColorPicker::layout: the next update and draw see the new bounds.
Layout ==
    /\ call = NoCall
    /\ \E b \in LayoutBounds \ {bounds} : bounds' = b
    /\ UNCHANGED <<color, spectrum, on_select_alt, spectrum_cache,
                   marker_cache, pressed, current_color, call, out, redraw,
                   probe>>

NextLayout ==
    \/ Next
    \/ Layout

SpecLayout == Init /\ [][NextLayout]_vars

\* C16: on bounds of zero width or zero height a press, a cursor move and a
\* finger move emit nothing and leave the drag state alone, also when the
\* drag began on bounds of positive area.
C16_ZeroAreaNoOp ==
    /\ IsUpdate
    /\ bounds.width = 0 \/ bounds.height = 0
    /\ call.event.kind \in {"ButtonPressed", "FingerPressed", "CursorMoved",
                            "FingerMoved"}
    => /\ out = << >>
       /\ pressed = Was.pressed


(***************************************************************************)
(* The saturation-value picker laid out on 100 x 100 bounds at the origin, *)
(* its host holding one colour, under mouse presses, moves and releases.   *)
(***************************************************************************)
ScenarioBounds == Rect(0, 0, 100, 100)

ScenarioColor == hsva(Num(120), Rat(3, 10), Rat(3, 10), Num(1))

\* The cursor on every quarter of the bounds' sides, the far edges included,
\* or without a position.
ScenarioCursors ==
    {<<x, y>> : x \in {0, 25, 50, 75, 100}, y \in {0, 25, 50, 75, 100}}
        \cup {NoPoint}

InitScenario ==
    /\ color = ScenarioColor
    /\ spectrum = "SaturationValue"
    /\ on_select_alt \in BOOLEAN
    /\ bounds = ScenarioBounds
    /\ spectrum_cache = EmptyCache
    /\ marker_cache = EmptyCache
    /\ pressed = Idle
    /\ current_color = DefaultHsv
    /\ call = NoCall
    /\ out = << >>
    /\ redraw = FALSE
    /\ probe = NoProbe

ScenarioButtonPressed ==
    /\ call = NoCall
    /\ \E b \in Buttons, cursor \in ScenarioCursors :
            Update(ScenarioColor, Event("ButtonPressed", b, 0, NoPoint), cursor,
                   ButtonPressed(b, cursor, pressed,
                                 Diffed(ScenarioColor).current_color))

ScenarioCursorMoved ==
    /\ call = NoCall
    /\ \E cursor \in ScenarioCursors :
            Update(ScenarioColor, Event("CursorMoved", "None", 0, NoPoint),
                   cursor,
                   CursorMoved(cursor, pressed,
                               Diffed(ScenarioColor).current_color))

ScenarioButtonReleased ==
    /\ call = NoCall
    /\ \E b \in Buttons :
            Update(ScenarioColor, Event("ButtonReleased", b, 0, NoPoint),
                   NoPoint, ButtonReleased(b, pressed))

NextScenario ==
    \/ ScenarioButtonPressed
    \/ ScenarioCursorMoved
    \/ ScenarioButtonReleased
    \/ Collect

SpecScenario == InitScenario /\ [][NextScenario]_vars

\* C17: on 100 x 100 bounds at the origin, with the saturation-value
\* spectrum and the host colour h = 120, s = 0.3, v = 0.3, a = 1, a left
\* press at (50, 0) from Idle publishes exactly one message on the primary
\* channel, carrying h = 120, s = 0.5, v = 1, a = 1, and leaves pressed at
\* Primary.
C17_PressAtTopMiddle ==
    /\ IsPress("Left")
    /\ Was.pressed = Idle
    /\ call.cursor = <<50, 0>>
    /\ bounds = Rect(0, 0, 100, 100)
    /\ spectrum = "SaturationValue"
    /\ color = hsva(Num(120), Rat(3, 10), Rat(3, 10), Num(1))
    => /\ out = <<Message("on_select",
                          hsva(Num(120), Rat(1, 2), Num(1), Num(1)))>>
       /\ pressed = Primary

\* The press of the scenario has happened, on a picker that had been
\* dragged and released before.
C17_Witness ==
    /\ IsPress("Left")
    /\ Was.pressed = Idle
    /\ Was.current_color = ScenarioColor
    /\ call.cursor = <<50, 0>>
    /\ bounds = ScenarioBounds
    /\ color = ScenarioColor
    /\ Len(out) = 1
    /\ out[1].color.s = Rat(1, 2)
    /\ pressed = Primary


(***************************************************************************)
(* hsv.rs: the conversions between Color and Hsv, evaluated on every       *)
(* colour whose channels are multiples of 1 / Levels.                      *)
(***************************************************************************)
FAdd(a, b) == Rat(a[1] * b[2] + b[1] * a[2], a[2] * b[2])

\* f32::abs of a finite value.
FAbs(a) == <<Abs(a[1]), a[2]>>

\* The % of two finite values, the divisor positive: the remainder has the
\* sign of the dividend.
FRem(a, m) ==
    LET whole == (Abs(a[1]) * m[2]) \div (a[2] * m[1])
        rest == FSub(FAbs(a), FMul(Num(whole), m))
    IN  IF a[1] < 0 THEN FSub(Num(0), rest) ELSE rest

\* f32::EPSILON, 2^-23.
EPSILON == Rat(1, 8388608)

\* Faulty: the saturation is min / max.
HsvFromColor_min_over_max(c) ==
    LET max == FMax(c.r, FMax(c.g, c.b))
        min == FMin(c.r, FMin(c.g, c.b))
        range == FSub(max, min)
        sextant ==
            IF FLt(FAbs(range), EPSILON) THEN Num(0)
            ELSE IF FLt(FAbs(FSub(max, c.r)), EPSILON)
            THEN FMul(Num(60), FAdd(Num(0), FDiv(FSub(c.g, c.b), range)))
            ELSE IF FLt(FAbs(FSub(max, c.g)), EPSILON)
            THEN FMul(Num(60), FAdd(Num(2), FDiv(FSub(c.b, c.r), range)))
            ELSE FMul(Num(60), FAdd(Num(4), FDiv(FSub(c.r, c.g), range)))
        h == FRem(IF FLt(sextant, Num(0)) THEN FAdd(sextant, Num(360))
                  ELSE sextant, Num(360))
        s == IF max = Num(0) THEN Num(0) ELSE FDiv(min, max)
        v == max
    IN  hsva(h, s, v, c.a)

\* Faulty: a negative hue is not wrapped by 360.
HsvFromColor_no_wrap(c) ==
    LET max == FMax(c.r, FMax(c.g, c.b))
        min == FMin(c.r, FMin(c.g, c.b))
        range == FSub(max, min)
        sextant ==
            IF FLt(FAbs(range), EPSILON) THEN Num(0)
            ELSE IF FLt(FAbs(FSub(max, c.r)), EPSILON)
            THEN FMul(Num(60), FAdd(Num(0), FDiv(FSub(c.g, c.b), range)))
            ELSE IF FLt(FAbs(FSub(max, c.g)), EPSILON)
            THEN FMul(Num(60), FAdd(Num(2), FDiv(FSub(c.b, c.r), range)))
            ELSE FMul(Num(60), FAdd(Num(4), FDiv(FSub(c.r, c.g), range)))
        h == FRem(sextant, Num(360))
        s == IF max = Num(0) THEN Num(0) ELSE FDiv(range, max)
        v == max
    IN  hsva(h, s, v, c.a)

\* impl From<Color> for Hsv
HsvFromColor(c) ==
    LET max == FMax(c.r, FMax(c.g, c.b))
        min == FMin(c.r, FMin(c.g, c.b))
        range == FSub(max, min)
        sextant ==
            IF FLt(FAbs(range), EPSILON) THEN Num(0)
            ELSE IF FLt(FAbs(FSub(max, c.r)), EPSILON)
            THEN FMul(Num(60), FAdd(Num(0), FDiv(FSub(c.g, c.b), range)))
            ELSE IF FLt(FAbs(FSub(max, c.g)), EPSILON)
            THEN FMul(Num(60), FAdd(Num(2), FDiv(FSub(c.b, c.r), range)))
            ELSE FMul(Num(60), FAdd(Num(4), FDiv(FSub(c.r, c.g), range)))
        h == FRem(IF FLt(sextant, Num(0)) THEN FAdd(sextant, Num(360))
                  ELSE sextant, Num(360))
        s == IF max = Num(0) THEN Num(0) ELSE FDiv(range, max)
        v == max
    IN  hsva(h, s, v, c.a)

\* The number of steps a channel is divided into.
Levels == 6

Channels == {Rat(k, Levels) : k \in 0..Levels}

InitHsv ==
    /\ color = DefaultHsv
    /\ spectrum = "SaturationValue"
    /\ on_select_alt = FALSE
    /\ bounds \in BoundsSet
    /\ spectrum_cache = EmptyCache
    /\ marker_cache = EmptyCache
    /\ pressed = Idle
    /\ current_color = DefaultHsv
    /\ call = NoCall
    /\ out = << >>
    /\ redraw = FALSE
    /\ \E r \in Channels, g \in Channels, b \in Channels,
          a \in {Num(0), Rat(1, 2), Num(1)} :
           probe = [rgba |-> [r |-> r, g |-> g, b |-> b, a |-> a],
                    done |-> FALSE, hsv |-> DefaultHsv,
                    back |-> [r |-> Num(0), g |-> Num(0), b |-> Num(0),
                              a |-> Num(0)]]

\* Hsv::from(color), and Color::from of the result.
ConvertColor ==
    /\ ~probe.done
    /\ LET converted == HsvFromColor(probe.rgba)
       IN  probe' = [probe EXCEPT !.done = TRUE,
                                  !.hsv = converted,
                                  !.back = ColorFromHsv(converted)]
    /\ UNCHANGED <<color, spectrum, on_select_alt, bounds, spectrum_cache,
                   marker_cache, pressed, current_color, call, out, redraw>>

NextHsv == ConvertColor

SpecHsv == InitHsv /\ [][NextHsv]_vars

\* C18: a colour with r = g = b converts to h = 0, s = 0, v = r, with its
\* alpha unchanged.
C18_Achromatic ==
    /\ probe.done
    /\ probe.rgba.r = probe.rgba.g
    /\ probe.rgba.g = probe.rgba.b
    => probe.hsv = hsva(Num(0), Num(0), probe.rgba.r, probe.rgba.a)

\* A mid grey of alpha 1/2 has been converted.
C18_Witness ==
    /\ probe.done
    /\ probe.rgba = [r |-> Rat(1, 2), g |-> Rat(1, 2), b |-> Rat(1, 2),
                     a |-> Rat(1, 2)]
    /\ probe.hsv = hsva(Num(0), Num(0), Rat(1, 2), Rat(1, 2))

\* All channels lie strictly between 0 and 1 and no two of r, g, b are equal.
Chromatic(c) ==
    /\ \A ch \in {c.r, c.g, c.b, c.a} : FLt(Num(0), ch) /\ FLt(ch, Num(1))
    /\ c.r # c.g /\ c.g # c.b /\ c.r # c.b

\* Two values differ by 1e-5 at most.
Near(x, y) == FLe(FAbs(FSub(x, y)), Rat(1, 100000))

\* C19: a colour with all channels strictly between 0 and 1 and no two of
\* r, g, b equal, converted to Hsv and back, is within 1e-5 of itself on
\* every channel.
C19_RoundTrip ==
    probe.done /\ Chromatic(probe.rgba) =>
        /\ Near(probe.back.r, probe.rgba.r)
        /\ Near(probe.back.g, probe.rgba.g)
        /\ Near(probe.back.b, probe.rgba.b)
        /\ Near(probe.back.a, probe.rgba.a)

\* A colour whose blue exceeds its green under a maximal red, so that its
\* hue is wrapped by 360, has been converted and converted back.
C19_Witness ==
    /\ probe.done
    /\ Chromatic(probe.rgba)
    /\ FLt(probe.rgba.g, probe.rgba.b)
    /\ FLt(probe.rgba.b, probe.rgba.r)
    /\ FLt(Num(300), probe.hsv.h)
    /\ probe.back = probe.rgba


(***************************************************************************)
(* Spectrum::render_spectrum (spectrums.rs): the rectangles it fills on a  *)
(* frame, for every axis assignment, frame size and base colour.           *)
(***************************************************************************)
\* Faulty: saturation and value are forced whenever an axis is unassigned.
singular_hue_colour_change_any(self, c) ==
    IF self.x_axis = "None" \/ self.y_axis = "None"
    THEN [c EXCEPT !.s = Num(1), !.v = Num(1)]
    ELSE c

singular_hue_colour_change(self, c) ==
    LET x_or_y == IF self.x_axis # "None" THEN self.x_axis ELSE self.y_axis
    IN  IF self.x_axis = "None" \/ self.y_axis = "None"
        THEN IF x_or_y = "Hue"
             THEN [c EXCEPT !.s = Num(1), !.v = Num(1)]
             ELSE c
        ELSE c

QUANTIZATION == 2

\* The loops of render_spectrum from block k on, columns outermost; c holds
\* the h, s, v the blocks before k left behind.
RECURSIVE RenderFrom(_, _, _, _)
RenderFrom(self, size, k, c) ==
    LET cols == size[1] \div QUANTIZATION
        rows == size[2] \div QUANTIZATION
    IN  IF k >= cols * rows THEN << >>
        ELSE LET col == k \div rows
                 row == k % rows
                 col_percent == FDiv(Num(col * QUANTIZATION), Num(size[1]))
                 row_percent == FDiv(Num(row * QUANTIZATION), Num(size[2]))
                 changed == modify_hsv(self, col_percent, row_percent, c)
                 block == [top_left |-> <<col * QUANTIZATION,
                                          row * QUANTIZATION>>,
                           size |-> <<QUANTIZATION, QUANTIZATION>>,
                           hsv |-> hsv(changed.h, changed.s, changed.v),
                           color |-> ColorFromHsv(hsv(changed.h, changed.s,
                                                      changed.v))]
             IN  <<block>> \o RenderFrom(self, size, k + 1, changed)

\* The rectangles filled, in the order they are filled: where, how large,
\* the Hsv handed to Color::from and the colour it gave.
render_spectrum(self, size, color_) ==
    RenderFrom(self, size, 0, singular_hue_colour_change(self, color_))

\* The largest width and height of the frame.
MaxFrame == 5

InitRender ==
    /\ color = DefaultHsv
    /\ spectrum = "SaturationValue"
    /\ on_select_alt = FALSE
    /\ bounds \in BoundsSet
    /\ spectrum_cache = EmptyCache
    /\ marker_cache = EmptyCache
    /\ pressed = Idle
    /\ current_color = DefaultHsv
    /\ call = NoCall
    /\ out = << >>
    /\ redraw = FALSE
    /\ \E self \in [x_axis : Axes, y_axis : Axes], base \in FetchColors,
          w \in 0..MaxFrame, h \in 0..MaxFrame :
           probe = [self |-> self, color |-> base, size |-> <<w, h>>,
                    done |-> FALSE, filled |-> << >>]

RenderSpectrum ==
    /\ ~probe.done
    /\ probe' = [probe EXCEPT
                    !.done = TRUE,
                    !.filled = render_spectrum(probe.self, probe.size,
                                               probe.color)]
    /\ UNCHANGED <<color, spectrum, on_select_alt, bounds, spectrum_cache,
                   marker_cache, pressed, current_color, call, out, redraw>>

NextRender == RenderSpectrum

SpecRender == InitRender /\ [][NextRender]_vars

\* Exactly one axis is assigned and its component is Hue.
SingleHue(self) == Assigned(self) = {"Hue"} /\ "None" \in {self.x_axis, self.y_axis}

\* C20: in every rectangle of the rendered background, a component assigned
\* to no axis has the base colour's value, except that with exactly one axis
\* assigned, to Hue, saturation and value are 1 whatever the base colour; with
\* two axes assigned, or one assigned to Saturation or Value, nothing is
\* forced. The rectangle's colour is the conversion of that Hsv.
C20_HeldComponents ==
    probe.done =>
        \A i \in 1..Len(probe.filled) :
            LET block == probe.filled[i]
                held(comp) ==
                    IF SingleHue(probe.self) /\ comp # "Hue" THEN Num(1)
                    ELSE get_hsv_component(comp, probe.color)
            IN  /\ \A comp \in HsvComponents \ Assigned(probe.self) :
                       get_hsv_component(comp, block.hsv) = held(comp)
                /\ block.hsv.a = Num(1)
                /\ block.color = ColorFromHsv(block.hsv)

\* A vertical hue strip has been rendered on a base colour of saturation and
\* value below 1: more than one rectangle, each at saturation and value 1.
C20_Witness ==
    /\ probe.done
    /\ probe.self = get_hue_vertical
    /\ probe.color.s # Num(1) /\ probe.color.v # Num(1)
    /\ Len(probe.filled) > 1
    /\ \A i \in 1..Len(probe.filled) :
           probe.filled[i].hsv.s = Num(1) /\ probe.filled[i].hsv.v = Num(1)
    /\ probe.filled[1].hsv.h # probe.filled[2].hsv.h


(***************************************************************************)
(* Spectrum::modify_hsv on every axis assignment and pair of percentages.  *)
(***************************************************************************)
Percentages == {Num(0), Rat(1, 3), Rat(1, 2), Num(1)}

InitModify ==
    /\ color = DefaultHsv
    /\ spectrum = "SaturationValue"
    /\ on_select_alt = FALSE
    /\ bounds \in BoundsSet
    /\ spectrum_cache = EmptyCache
    /\ marker_cache = EmptyCache
    /\ pressed = Idle
    /\ current_color = DefaultHsv
    /\ call = NoCall
    /\ out = << >>
    /\ redraw = FALSE
    /\ \E self \in [x_axis : Axes, y_axis : Axes], base \in FetchColors,
          col_percent \in Percentages, row_percent \in Percentages :
           probe = [self |-> self, color |-> base,
                    col_percent |-> col_percent, row_percent |-> row_percent,
                    done |-> FALSE, hsv |-> base]

ModifyHsv ==
    /\ ~probe.done
    /\ probe' = [probe EXCEPT
                    !.done = TRUE,
                    !.hsv = modify_hsv(probe.self, probe.col_percent,
                                       probe.row_percent, probe.color)]
    /\ UNCHANGED <<color, spectrum, on_select_alt, bounds, spectrum_cache,
                   marker_cache, pressed, current_color, call, out, redraw>>

NextModify == ModifyHsv

SpecModify == InitModify /\ [][NextModify]_vars

\* The value an axis gives its component at a percentage.
AxisValue(comp, percent) ==
    CASE comp = "Hue" -> Rat(percent[1] * 360, percent[2])
      [] comp = "Saturation" -> percent
      [] comp = "Value" -> Rat(percent[2] - percent[1], percent[2])

\* C21: after modify_hsv each component is the y axis' value at row_percent
\* if the y axis is assigned it, else the x axis' value at col_percent if
\* the x axis is assigned it, else unchanged, by Hue: percent * 360,
\* Saturation: percent, Value: 1 - percent; so with one component on both
\* axes col_percent has no effect.
C21_ModifyHsv ==
    probe.done =>
        /\ \A comp \in HsvComponents :
               get_hsv_component(comp, probe.hsv) =
                   IF probe.self.y_axis = comp
                   THEN AxisValue(comp, probe.row_percent)
                   ELSE IF probe.self.x_axis = comp
                   THEN AxisValue(comp, probe.col_percent)
                   ELSE get_hsv_component(comp, probe.color)
        /\ probe.hsv.a = probe.color.a
        /\ probe.self.x_axis = probe.self.y_axis =>
               \A other \in Percentages :
                   probe.hsv = modify_hsv(probe.self, other,
                                          probe.row_percent, probe.color)

\* Value on both axes at different percentages: the row's value is kept.
C21_Witness ==
    /\ probe.done
    /\ probe.self = new_matrix("Value", "Value")
    /\ probe.col_percent = Num(1)
    /\ probe.row_percent = Rat(1, 3)
    /\ probe.hsv = [probe.color EXCEPT !.v = Rat(2, 3)]


(***************************************************************************)
(* Color::from(Hsv) on hues within and beyond [0, 360] and on saturations, *)
(* values and alphas within and beyond [0, 1].                             *)
(***************************************************************************)
\* Hues every 30 degrees from -60 to 450.
RgbHues == {Num(30 * k) : k \in -2..15}

RgbUnits == {Num(0), Rat(1, 2), Num(1), Rat(3, 2)}

InitRgb ==
    /\ color = DefaultHsv
    /\ spectrum = "SaturationValue"
    /\ on_select_alt = FALSE
    /\ bounds \in BoundsSet
    /\ spectrum_cache = EmptyCache
    /\ marker_cache = EmptyCache
    /\ pressed = Idle
    /\ current_color = DefaultHsv
    /\ call = NoCall
    /\ out = << >>
    /\ redraw = FALSE
    /\ \E h \in RgbHues, s \in RgbUnits, v \in RgbUnits,
          a \in {Rat(-1, 2), Rat(1, 2), Rat(3, 2)} :
           probe = [hsv |-> hsva(h, s, v, a), done |-> FALSE,
                    rgba |-> [r |-> Num(0), g |-> Num(0), b |-> Num(0),
                              a |-> Num(0)]]

ConvertHsv ==
    /\ ~probe.done
    /\ probe' = [probe EXCEPT !.done = TRUE,
                              !.rgba = ColorFromHsv(probe.hsv)]
    /\ UNCHANGED <<color, spectrum, on_select_alt, bounds, spectrum_cache,
                   marker_cache, pressed, current_color, call, out, redraw>>

NextRgb == ConvertHsv

SpecRgb == InitRgb /\ [][NextRgb]_vars

\* C22: the colour is (v,t,p), (q,v,p), (p,v,t), (p,q,v), (t,p,v), (v,p,q)
\* for floor(h / 60) mod 6 = 0..5, at every hue, h = 360, h >= 420 and h < 0
\* included, each channel and the alpha clamped to [0, 1].
C22_SectorMod6 ==
    probe.done =>
        LET c == probe.hsv
            whole == c.h[1] \div (c.h[2] * 60)
            f == FSub(FDiv(c.h, Num(60)), Num(whole))
            p == FMul(c.v, FSub(Num(1), c.s))
            q == FMul(c.v, FSub(Num(1), FMul(c.s, f)))
            t == FMul(c.v, FSub(Num(1), FMul(c.s, FSub(Num(1), f))))
            sector == whole % 6
            rgb == CASE sector = 0 -> <<c.v, t, p>>
                     [] sector = 1 -> <<q, c.v, p>>
                     [] sector = 2 -> <<p, c.v, t>>
                     [] sector = 3 -> <<p, q, c.v>>
                     [] sector = 4 -> <<t, p, c.v>>
                     [] sector = 5 -> <<c.v, p, q>>
            unit(x) == IF FLt(x, Num(0)) THEN Num(0)
                       ELSE IF FLt(Num(1), x) THEN Num(1) ELSE x
        IN  probe.rgba = [r |-> unit(rgb[1]), g |-> unit(rgb[2]),
                          b |-> unit(rgb[3]), a |-> unit(c.a)]


\* The pixels of a rectangle of whole size at a whole position.
Pixels(top_left, size) ==
    (top_left[1]..(top_left[1] + size[1] - 1))
        \X (top_left[2]..(top_left[2] + size[2] - 1))

\* C23: on a frame of W x H pixels render_spectrum fills one 2 x 2 block at
\* (2i, 2j) for every i < W div 2 and j < H div 2 and no other; the blocks
\* are pairwise disjoint, lie inside the frame and together cover it; each
\* block's colour is the conversion of the colour Spectrum::fetch_hsv gives
\* for a cursor at the block's top-left corner, on the base colour with
\* s = v = 1 forced for a single Hue axis.
C23_BlocksCoverFrame ==
    probe.done =>
        LET W == probe.size[1]
            H == probe.size[2]
            filled == probe.filled
            frame == Rect(0, 0, W, H)
            base == singular_hue_colour_change(probe.self, probe.color)
        IN  /\ Len(filled) = (W \div 2) * (H \div 2)
            /\ {filled[i].top_left : i \in 1..Len(filled)}
                   = {<<2 * i, 2 * j>> : i \in 0..((W \div 2) - 1),
                                         j \in 0..((H \div 2) - 1)}
            /\ \A i \in 1..Len(filled) :
                   /\ filled[i].size = <<2, 2>>
                   /\ Pixels(filled[i].top_left, filled[i].size)
                          \subseteq Pixels(<<0, 0>>, <<W, H>>)
                   /\ \A j \in 1..Len(filled) :
                          i # j => Pixels(filled[i].top_left, filled[i].size)
                                       \cap Pixels(filled[j].top_left,
                                                   filled[j].size) = {}
                   /\ LET found == Spectrum_fetch_hsv(probe.self, base, frame,
                                                      filled[i].top_left)
                      IN  filled[i].color
                              = ColorFromHsv(hsv(found.h, found.s, found.v))
            /\ UNION {Pixels(filled[i].top_left, filled[i].size) :
                         i \in 1..Len(filled)}
                   = Pixels(<<0, 0>>, <<W, H>>)


\* C24: at a fixed size, after any updates and draws, a filled background
\* cache holds what the background is generated from at current_color's
\* present hue (nothing of the colour for a hue strip), and a filled marker
\* cache holds the marker's position and fill colour as generated from
\* current_color now.
C24_CacheCoherence ==
    LET size == <<bounds.width, bounds.height>>
    IN  /\ spectrum_cache.filled =>
               /\ spectrum_cache.size = size
               /\ spectrum_cache.geometry = SpectrumGeometry
        /\ marker_cache.filled =>
               /\ marker_cache.size = size
               /\ marker_cache.geometry = MarkerGeometry(size)

\* A draw has kept the background it had and generated the marker anew,
\* after an update that changed saturation or value.
C24_Witness ==
    /\ call.op = "draw"
    /\ spectrum = "SaturationValue"
    /\ Was.spectrum_cache.filled
    /\ spectrum_cache = Was.spectrum_cache
    /\ ~Was.marker_cache.filled
    /\ marker_cache.filled
    /\ current_color.s # Num(0)


\* C25: a drag keeps the kind its press gave it until it ends, and every
\* message an update publishes is on the channel of that kind: the primary
\* channel for Primary and for a finger, the secondary channel for
\* Secondary; so a message on the secondary channel is published only while
\* pressed = Secondary, and never without a secondary handler.
C25_ChannelOfDrag ==
    IsUpdate =>
        /\ (Was.pressed # Idle /\ pressed # Idle) => pressed = Was.pressed
        /\ \A i \in 1..Len(out) :
               /\ pressed # Idle
               /\ out[i].channel = (IF pressed = Secondary
                                    THEN "on_select_alt" ELSE "on_select")
               /\ out[i].channel = "on_select_alt" =>
                      pressed = Secondary /\ on_select_alt

\* A cursor move in a right-button drag that an earlier call began has
\* published on the secondary channel.
C25_Witness ==
    /\ IsKind("CursorMoved")
    /\ Was.pressed = Secondary
    /\ pressed = Secondary
    /\ Len(out) = 1
    /\ out[1].channel = "on_select_alt"


\* C26: an update requests a redraw exactly when its diff cleared a cache:
\* with a redraw requested the marker cache is empty after the call, and
\* without one both caches are as the call found them; an update whose
\* colour has the h, s and v of current_color requests no redraw and leaves
\* both caches alone, whatever its event and the interaction state.
C26_RedrawIffCleared ==
    IsUpdate =>
        /\ redraw => marker_cache = EmptyCache
        /\ ~redraw => /\ spectrum_cache = Was.spectrum_cache
                      /\ marker_cache = Was.marker_cache
        /\ (/\ color.h = Was.current_color.h
            /\ color.s = Was.current_color.s
            /\ color.v = Was.current_color.v)
               => /\ ~redraw
                  /\ spectrum_cache = Was.spectrum_cache
                  /\ marker_cache = Was.marker_cache

\* An update during a drag, its colour differing from current_color in alpha
\* alone, has published a message, found both caches filled and left them
\* so, and requested no redraw.
C26_Witness ==
    /\ IsUpdate
    /\ Was.pressed # Idle
    /\ out # << >>
    /\ color.a # Was.current_color.a
    /\ Was.spectrum_cache.filled /\ spectrum_cache.filled
    /\ Was.marker_cache.filled /\ marker_cache.filled
    /\ ~redraw

====
